---- MODULE Spec2Model ----
(***************************************************************************)
(* Model of src/src/inject/inject.ts: the GitLabTree page augmentation.    *)
(*                                                                         *)
(* Strings are sequences of one-character strings ("a/b" is                *)
(* <<"a","/","b">>), so that split, join, substring and trim are modelled  *)
(* by what they do.  A JavaScript value is a record [t, n, props]: t is    *)
(* the typeof tag, n the number, props the own properties of an object in  *)
(* creation order.                                                         *)
(***************************************************************************)
EXTENDS Integers, Sequences, FiniteSets, TLC

VARIABLES site, page, locationHash, insts, instance, listeners, polling, strict, raised

vars == <<site, page, locationHash, insts, instance, listeners, polling, strict, raised>>

(***************************************************************************)
(* Bounds of the model.                                                    *)
(***************************************************************************)
MaxFiles == 3
MaxDepth == 2
MetaFiles == 2
LifeFiles == 2
MaxInstances == 3

(***************************************************************************)
(* String helpers (String.prototype.split / join / substring / trim).      *)
(***************************************************************************)
Min(S) == CHOOSE x \in S : \A y \in S : x <= y

RECURSIVE Split(_, _)
Split(s, sep) ==
    LET hits == {k \in 1..Len(s) : s[k] = sep}
    IN  IF hits = {} THEN <<s>>
        ELSE <<SubSeq(s, 1, Min(hits) - 1)>>
                 \o Split(SubSeq(s, Min(hits) + 1, Len(s)), sep)

RECURSIVE Join(_, _)
Join(parts, sep) ==
    IF Len(parts) = 0 THEN <<>>
    ELSE IF Len(parts) = 1 THEN parts[1]
    ELSE parts[1] \o <<sep>> \o Join(Tail(parts), sep)

\* s.substring(n): the characters from 0-based index n to the end
Substring(s, n) == IF n >= Len(s) THEN <<>> ELSE SubSeq(s, n + 1, Len(s))

RECURSIVE TrimLeft(_)
TrimLeft(s) == IF Len(s) > 0 /\ s[1] = " " THEN TrimLeft(Tail(s)) ELSE s

RECURSIVE TrimRight(_)
TrimRight(s) ==
    IF Len(s) > 0 /\ s[Len(s)] = " " THEN TrimRight(SubSeq(s, 1, Len(s) - 1)) ELSE s

Trim(s) == TrimRight(TrimLeft(s))

StartsWith(s, p) == Len(p) <= Len(s) /\ SubSeq(s, 1, Len(p)) = p

(***************************************************************************)
(* Program constants.                                                      *)
(***************************************************************************)
CSS_PREFIX == "gitlab-tree-plugin"
HIDDEN == "gitlab-tree-plugin-hidden"
FILE_ACTIVE == "gitlab-tree-plugin-file-active"

ADDED == "ADDED"
UPDATED == "UPDATED"
RENAMED == "RENAMED"
DELETED == "DELETED"
EFileState == {ADDED, UPDATED, RENAMED, DELETED}

(***************************************************************************)
(* obtainMetadata: one record per '.file-stats li' entry of the page.      *)
(* A raw entry is [classList, href, text].                                 *)
(***************************************************************************)
\* an if / else-if chain in place of the three independent tests
TypeOfFirstMatch(typeRaw) ==
    IF "add-file" \in typeRaw THEN ADDED
    ELSE IF "renamed-file" \in typeRaw THEN RENAMED
    ELSE IF "deleted-file" \in typeRaw THEN DELETED
    ELSE UPDATED

TypeOf(typeRaw) ==
    LET t0 == UPDATED
        t1 == IF "add-file" \in typeRaw THEN ADDED ELSE t0
        t2 == IF "renamed-file" \in typeRaw THEN RENAMED ELSE t1
        t3 == IF "deleted-file" \in typeRaw THEN DELETED ELSE t2
    IN  t3

\* the rename separator (U+2192), one character of the display text
ARROW == "->"

FilenameOf(text) ==
    LET filename == Trim(text)
    IN  IF \E k \in 1..Len(filename) : filename[k] = ARROW
        THEN Trim(Split(filename, ARROW)[2])
        ELSE filename

obtainMetadata(rawFilesMetadata) ==
    [k \in 1..Len(rawFilesMetadata) |->
        [type |-> TypeOf(rawFilesMetadata[k].classList),
         hash |-> rawFilesMetadata[k].href,
         filename |-> FilenameOf(rawFilesMetadata[k].text)]]

(***************************************************************************)
(* getPrefixPath / removePathPrefix                                        *)
(***************************************************************************)
\* the inner loop of getPrefixPath: cut sourcePathParts at the first index
\* where it differs from filePathParts (a missing part is undefined and
\* differs from every string)
Truncate(sourcePathParts, filePathParts) ==
    LET diff == {ii \in 1..Len(sourcePathParts) :
                    \/ ii > Len(filePathParts)
                    \/ sourcePathParts[ii] # filePathParts[ii]}
    IN  IF diff = {} THEN sourcePathParts
        ELSE SubSeq(sourcePathParts, 1, Min(diff) - 1)

RECURSIVE Narrow(_, _, _)
Narrow(sourcePathParts, fileNames, i) ==
    IF i > Len(fileNames) THEN sourcePathParts
    ELSE Narrow(Truncate(sourcePathParts, Split(fileNames[i], "/")), fileNames, i + 1)

getPrefixPath(fileNames) ==
    IF Len(fileNames) = 0 THEN <<>>
    ELSE LET sourcePathParts == Split(fileNames[1], "/")
         IN  IF Len(fileNames) = 1
             THEN Join(SubSeq(sourcePathParts, 1, Len(sourcePathParts) - 1), "/")
             ELSE Join(Narrow(sourcePathParts, fileNames, 2), "/")

removePathPrefix(fileNames, prefix) ==
    IF Len(prefix) = 0 THEN fileNames
    ELSE [k \in 1..Len(fileNames) |-> Substring(fileNames[k], Len(prefix \o <<"/">>))]

(***************************************************************************)
(* JavaScript values and property access.                                  *)
(***************************************************************************)
Undefined == [t |-> "undefined", n |-> -1, props |-> <<>>]
Num(i) == [t |-> "number", n |-> i, props |-> <<>>]
Obj(props) == [t |-> "object", n |-> -1, props |-> props]

HasKey(o, key) == \E k \in 1..Len(o.props) : o.props[k].key = key

\* o[key]; a number has no own properties (the names of the model's paths
\* are never those of Object.prototype or Number.prototype)
Get(o, key) ==
    IF HasKey(o, key)
    THEN o.props[CHOOSE k \in 1..Len(o.props) : o.props[k].key = key].val
    ELSE Undefined

\* o[key] = val on an object: an existing property keeps its place
Set(o, key, val) ==
    IF HasKey(o, key)
    THEN Obj([k \in 1..Len(o.props) |->
                 IF o.props[k].key = key THEN [key |-> key, val |-> val]
                 ELSE o.props[k]])
    ELSE Obj(Append(o.props, [key |-> key, val |-> val]))

\* !v
Falsy(v) == v.t = "undefined" \/ (v.t = "number" /\ v.n = 0)

(***************************************************************************)
(* createFolderStructure                                                   *)
(***************************************************************************)
\* The inner loop from index ii on, currentFolder being cur: the result is
\* [ok, val], val the value cur has become, ok = FALSE for a TypeError.
\* Assigning a property on a primitive number throws in strict code and is
\* ignored in sloppy code.
RECURSIVE Walk(_, _, _, _, _)
Walk(cur, fileNameParts, ii, i, strictCode) ==
    IF ii > Len(fileNameParts) THEN [ok |-> TRUE, val |-> cur]
    ELSE
    LET part == fileNameParts[ii]
        last == (ii = Len(fileNameParts))
        fresh == IF last THEN Num(i) ELSE Obj(<<>>)
    IN  IF cur.t = "undefined" THEN [ok |-> FALSE, val |-> cur]
        ELSE IF cur.t = "number"
        THEN IF strictCode THEN [ok |-> FALSE, val |-> cur]
             ELSE LET r == Walk(Undefined, fileNameParts, ii + 1, i, strictCode)
                  IN  [ok |-> r.ok, val |-> cur]
        ELSE LET cur1 == IF Falsy(Get(cur, part)) THEN Set(cur, part, fresh) ELSE cur
                 r == Walk(Get(cur1, part), fileNameParts, ii + 1, i, strictCode)
             IN  [ok |-> r.ok, val |-> Set(cur1, part, r.val)]

\* one iteration of the outer loop: the path at 0-based index i
AddFile(structure, fileName, i, strictCode) ==
    Walk(structure, Split(fileName, "/"), 1, i, strictCode)

\* the structure after the first k paths
RECURSIVE FoldFiles(_, _, _)
FoldFiles(fileNames, k, strictCode) ==
    IF k = 0 THEN [ok |-> TRUE, val |-> Obj(<<>>)]
    ELSE LET before == FoldFiles(fileNames, k - 1, strictCode)
         IN  IF before.ok THEN AddFile(before.val, fileNames[k], k - 1, strictCode)
             ELSE before

createFolderStructure(fileNames, strictCode) ==
    IF Len(fileNames) = 0 THEN [ok |-> FALSE, val |-> Obj(<<>>)]
    ELSE FoldFiles(fileNames, Len(fileNames), strictCode)

(***************************************************************************)
(* convertFolderStructureToDOM                                             *)
(***************************************************************************)
Digits == <<"0", "1", "2", "3", "4", "5", "6", "7", "8", "9">>
IsDigit(c) == \E d \in 1..10 : Digits[d] = c
DigitVal(c) == (CHOOSE d \in 1..10 : Digits[d] = c) - 1

\* an integer index key: a canonical decimal numeral
IsIndexKey(key) ==
    /\ Len(key) > 0
    /\ \A k \in 1..Len(key) : IsDigit(key[k])
    /\ (key[1] = "0" => Len(key) = 1)

RECURSIVE KeyVal(_)
KeyVal(key) ==
    IF Len(key) = 0 THEN 0
    ELSE 10 * KeyVal(SubSeq(key, 1, Len(key) - 1)) + DigitVal(key[Len(key)])

RECURSIVE SortByKeyVal(_)
SortByKeyVal(props) ==
    IF Len(props) = 0 THEN <<>>
    ELSE LET m == CHOOSE k \in 1..Len(props) :
                      \A j \in 1..Len(props) : KeyVal(props[k].key) <= KeyVal(props[j].key)
         IN  <<props[m]>> \o SortByKeyVal(SubSeq(props, 1, m - 1) \o SubSeq(props, m + 1, Len(props)))

\* for ( let name in structure ): integer index keys in ascending numeric
\* order, then the other keys in creation order
ForIn(structure) ==
    SortByKeyVal(SelectSeq(structure.props, LAMBDA p : IsIndexKey(p.key)))
        \o SelectSeq(structure.props, LAMBDA p : ~IsIndexKey(p.key))

FileStateClass(type) ==
    CASE type = ADDED -> "gitlab-tree-plugin-file-added"
      [] type = RENAMED -> "gitlab-tree-plugin-file-renamed"
      [] type = DELETED -> "gitlab-tree-plugin-file-deleted"
      [] OTHER -> "gitlab-tree-plugin-file-updated"

\* the rendered element: a 'div.folder' (text: the title of its holder) or
\* an 'a.file' link; children are the elements appended after the holder, in
\* the order of the appendChild calls
RECURSIVE convertFolderStructureToDOM(_, _, _)
convertFolderStructureToDOM(folderName, structure, metadata) ==
    LET entries == ForIn(structure)
        isFile(p) == p.val.t = "number"
        fileEntries == SelectSeq(entries, isFile)
        folderEntries == SelectSeq(entries, LAMBDA p : ~isFile(p))
        files == [k \in 1..Len(fileEntries) |->
                     [tag |-> "a",
                      text |-> fileEntries[k].key,
                      href |-> metadata[fileEntries[k].val.n + 1].hash,
                      classList |-> {"file",
                          FileStateClass(metadata[fileEntries[k].val.n + 1].type)},
                      children |-> <<>>]]
        folders == [k \in 1..Len(folderEntries) |->
                       convertFolderStructureToDOM(folderEntries[k].key,
                                                   folderEntries[k].val, metadata)]
    IN  [tag |-> "div", text |-> folderName, href |-> <<>>,
         classList |-> {"folder"}, children |-> folders \o files]

\* the href of every link below a rendered element
RECURSIVE Hrefs(_)
Hrefs(dom) ==
    (IF dom.tag = "a" THEN {dom.href} ELSE {})
        \cup UNION {Hrefs(dom.children[k]) : k \in 1..Len(dom.children)}

(***************************************************************************)
(* The host page.  site is the list of raw '.file-stats li' entries of the *)
(* merge request; page is the document as currently rendered:              *)
(*   isGitLab   meta[content="GitLab"] is present                         *)
(*   files      the '.files' container is present                          *)
(*   classList  the classes of the '.files' container                      *)
(*   holders    the ids of the '.file-holder' children of the container    *)
(*   stats      the '.file-stats li' entries                               *)
(*   wrapper    the instance whose wrapperElement is mounted (0: none)     *)
(***************************************************************************)
HashOf(k) == <<"#", "f", Digits[k + 1]>>
IdOf(k) == <<"f", Digits[k + 1]>>

Shapes == {"diffs", "loading", "nostats", "nofiles", "foreign"}

Render(shape, entries) ==
    [isGitLab |-> shape # "foreign",
     files |-> shape # "nofiles",
     classList |-> {},
     holders |-> IF shape \in {"loading", "nofiles"} THEN <<>>
                 ELSE [k \in 1..(IF Len(entries) = 0 THEN 1 ELSE Len(entries)) |-> IdOf(k)],
     stats |-> IF shape = "nostats" THEN <<>> ELSE entries,
     wrapper |-> 0]

(***************************************************************************)
(* A GitLabTree object.  hidden and active are the panels of rightElement  *)
(* carrying the -hidden class and the links of leftElement carrying the    *)
(* -file-active class; listener tells whether hashChangeListener is set;   *)
(* exit is where the constructor stopped.                                 *)
(***************************************************************************)
\* leftElement before the tree is appended
EmptyDOM == [tag |-> "div", text |-> <<>>, href |-> <<>>, classList |-> {}, children |-> <<>>]

NewInstance ==
    [fileHolders |-> <<>>, metadata |-> <<>>, fileNames |-> <<>>,
     pathPrefix |-> <<>>, strippedFileNames |-> <<>>,
     leftElement |-> EmptyDOM, rightElement |-> <<>>,
     hidden |-> {}, active |-> {}, lastActive |-> <<>>,
     listener |-> FALSE, exit |-> "new", tornDown |-> FALSE]

\* querySelector results: TRUE when an element is found
getFileHolderByHash(self, hash) ==
    \E k \in 1..Len(self.rightElement) : self.rightElement[k] = Substring(hash, 1)

getFileLinkByHash(self, hash) == hash \in Hrefs(self.leftElement)

\* showFile: [self, threw]; threw is a TypeError on a null element
showFile(self, hashArg) ==
    IF Len(self.metadata) = 0 THEN [self |-> self, threw |-> FALSE]
    ELSE
    LET last == self.lastActive
        hasLast == Len(last) > 0
        hash == IF \E k \in 1..Len(self.metadata) : self.metadata[k].hash = hashArg
                THEN hashArg ELSE self.metadata[1].hash
        s1 == [self EXCEPT !.hidden = @ \cup {Substring(last, 1)}]
        s2 == [s1 EXCEPT !.active = @ \ {last}]
        s3 == [(IF hasLast THEN s2 ELSE self) EXCEPT !.hidden = @ \ {Substring(hash, 1)}]
        s4 == [s3 EXCEPT !.active = @ \cup {hash}]
        s5 == [s4 EXCEPT !.lastActive = hash]
    IN  IF hasLast /\ ~getFileHolderByHash(self, last) THEN [self |-> self, threw |-> TRUE]
        ELSE IF hasLast /\ ~getFileLinkByHash(self, last) THEN [self |-> s1, threw |-> TRUE]
        ELSE IF ~getFileHolderByHash(self, hash)
             THEN [self |-> IF hasLast THEN s2 ELSE self, threw |-> TRUE]
        ELSE IF ~getFileLinkByHash(self, hash) THEN [self |-> s3, threw |-> TRUE]
        ELSE [self |-> s5, threw |-> FALSE]

\* copyAndHideFiles: every panel leaves the container for rightElement, hidden
copyAndHideFiles(self) ==
    [self EXCEPT !.rightElement = self.fileHolders,
                 !.hidden = {self.fileHolders[k] : k \in 1..Len(self.fileHolders)}]

\* the constructor of the instance numbered id: [self, page, threw]
Construct(id, doc, hash, strictCode) ==
    LET s0 == NewInstance
        s1 == [s0 EXCEPT !.fileHolders = doc.holders]
        doc1 == [doc EXCEPT !.classList = @ \cup {CSS_PREFIX}, !.holders = <<>>]
        s2 == [copyAndHideFiles(s1) EXCEPT !.metadata = obtainMetadata(doc.stats)]
        filenames == [k \in 1..Len(s2.metadata) |-> s2.metadata[k].filename]
        prefix == getPrefixPath(filenames)
        s3 == [s2 EXCEPT !.fileNames = filenames, !.pathPrefix = prefix,
                         !.strippedFileNames = removePathPrefix(filenames, prefix)]
        structure == createFolderStructure(s3.strippedFileNames, strictCode)
        s4 == [s3 EXCEPT !.leftElement =
                   convertFolderStructureToDOM(prefix, structure.val, s3.metadata)]
        doc2 == [doc1 EXCEPT !.wrapper = id]
        shown == showFile(s4, hash)
    IN  IF ~doc.isGitLab
        THEN [self |-> [s0 EXCEPT !.exit = "notGitLab"], page |-> doc, threw |-> FALSE]
        ELSE IF ~doc.files
        THEN [self |-> [s0 EXCEPT !.exit = "noFiles"], page |-> doc, threw |-> FALSE]
        ELSE IF Len(doc.holders) = 0
        THEN [self |-> [s1 EXCEPT !.exit = "noHolders"], page |-> doc, threw |-> FALSE]
        ELSE IF Len(s2.metadata) = 0
        THEN [self |-> [s2 EXCEPT !.exit = "noMetadata"], page |-> doc1, threw |-> FALSE]
        ELSE IF ~structure.ok
        THEN [self |-> [s3 EXCEPT !.exit = "threw"], page |-> doc1, threw |-> TRUE]
        ELSE IF shown.threw
        THEN [self |-> [shown.self EXCEPT !.exit = "threw"], page |-> doc2, threw |-> TRUE]
        ELSE [self |-> [shown.self EXCEPT !.exit = "done", !.listener = TRUE],
              page |-> doc2, threw |-> FALSE]

\* a teardown whose removeEventListener matches no registered listener
teardownKeepsListener(id) == listeners

\* teardown: removeEventListener of an unset listener does nothing
teardown(id) == listeners \ {id}

(***************************************************************************)
(* Inputs.                                                                 *)
(***************************************************************************)
Names == {<<"a">>, <<"2">>, <<"1", "0">>}
LifePaths == {<<"a">>, <<"a", "/", "b">>, <<"b">>}
Tags == {"add-file", "renamed-file", "deleted-file"}
Texts == {<<"a">>, <<" ", "a", "/", "b", " ">>, <<"a", " ", ARROW, " ", "b", "/", "a">>}

SeqsUpTo(S, n) == UNION {[1..k -> S] : k \in 1..n}
PathsOf(names, depth) == {Join(q, "/") : q \in SeqsUpTo(names, depth)}
ListsOf(P, lo, hi) == UNION {[1..k -> P] : k \in lo..hi}
Distinct(q) == \A j, k \in 1..Len(q) : j # k => q[j] # q[k]
\* the path lists of a diff: every path names one file
FileLists(P, hi) == {l \in ListsOf(P, 0, hi) : Distinct(l)}

\* entries with the references #f1, #f2, ... and the given texts and tags
Entries(texts, tags) ==
    [k \in 1..Len(texts) |-> [classList |-> tags[k], href |-> HashOf(k), text |-> texts[k]]]

Plain(texts) == Entries(texts, [k \in 1..Len(texts) |-> {}])

Fragments == {<<>>} \cup {HashOf(k) : k \in 1..MaxFiles}

(***************************************************************************)
(* Actions.                                                                *)
(***************************************************************************)
InitWith(sites, shapes, hashes) ==
    /\ site \in sites
    /\ \E shape \in shapes : page = Render(shape, site)
    /\ locationHash \in hashes
    /\ strict \in BOOLEAN
    /\ insts = <<>>
    /\ instance = 0
    /\ listeners = {}
    /\ polling = FALSE
    /\ raised = FALSE

\* the life of the script across re-renders of a small merge request
Init == InitWith({Plain(l) : l \in FileLists(LifePaths, LifeFiles)}, Shapes, Fragments)

\* one page load, over every list of paths of the bounded shape
InitLoad == InitWith({Plain(l) : l \in FileLists(PathsOf(Names, MaxDepth), MaxFiles)},
                     Shapes, Fragments)

\* one page load of a diff view, over every tagging and display text
InitMeta ==
    InitWith(UNION {{Entries(texts, tags) :
                        texts \in ListsOf(Texts, n, n), tags \in ListsOf(SUBSET Tags, n, n)} :
                    n \in 0..MetaFiles},
             {"diffs"}, {<<>>})

\* let instance = new GitLabTree(); setInterval( checkSiteChange, 3000 )
ScriptStart ==
    /\ Len(insts) = 0
    /\ LET c == Construct(1, page, locationHash, strict)
       IN  /\ insts' = <<c.self>>
           /\ page' = c.page
           /\ listeners' = IF c.self.listener THEN {1} ELSE {}
           /\ instance' = IF c.threw THEN 0 ELSE 1
           /\ polling' = ~c.threw
           /\ raised' = c.threw
    /\ UNCHANGED <<site, locationHash, strict>>

\* a hashchange event: every registered listener runs hashChanged
HashChange(newHash) ==
    /\ Len(insts) > 0
    /\ newHash # locationHash
    /\ locationHash' = newHash
    /\ insts' = [i \in 1..Len(insts) |->
                    IF i \in listeners THEN showFile(insts[i], newHash).self ELSE insts[i]]
    /\ raised' = \E i \in listeners : showFile(insts[i], newHash).threw
    /\ UNCHANGED <<site, page, instance, listeners, polling, strict>>

\* the host replaces the page content (an AJAX re-render)
PageReplace(shape) ==
    /\ polling
    /\ Len(insts) < MaxInstances
    /\ page' = Render(shape, site)
    /\ page' # page
    /\ UNCHANGED <<site, locationHash, insts, instance, listeners, polling, strict, raised>>

\* checkSiteChange, when its condition holds
checkSiteChange ==
    /\ polling
    /\ Len(insts) < MaxInstances
    /\ page.files /\ CSS_PREFIX \notin page.classList
    /\ LET id == Len(insts) + 1
           c == Construct(id, page, locationHash, strict)
           after == teardown(instance)
       IN  /\ insts' = Append([insts EXCEPT ![instance].tornDown = TRUE], c.self)
           /\ page' = c.page
           /\ listeners' = IF c.self.listener THEN after \cup {id} ELSE after
           /\ instance' = IF c.threw THEN instance ELSE id
           /\ raised' = c.threw
    /\ UNCHANGED <<site, locationHash, polling, strict>>

Next ==
    \/ ScriptStart
    \/ \E h \in Fragments : HashChange(h)
    \/ \E shape \in Shapes : PageReplace(shape)
    \/ checkSiteChange

NextLoad ==
    \/ ScriptStart
    \/ \E h \in Fragments : HashChange(h)

Spec == Init /\ [][Next]_vars
SpecLoad == InitLoad /\ [][NextLoad]_vars
SpecMeta == InitMeta /\ [][NextLoad]_vars

(***************************************************************************)
(* Properties.                                                             *)
(***************************************************************************)
Instances == 1..Len(insts)
Early == {"notGitLab", "noFiles", "noHolders", "noMetadata"}
Range(q) == {q[k] : k \in 1..Len(q)}
Visible(self) == Range(self.rightElement) \ self.hidden
Known(self, hash) == \E k \in 1..Len(self.metadata) : self.metadata[k].hash = hash

\* exactly one panel is visible and one entry highlighted: those of hash
OneActive(self, hash) ==
    /\ Visible(self) = {Substring(hash, 1)}
    /\ self.active = {hash}
    /\ getFileLinkByHash(self, hash)

\* C1: once an instance has initialized with at least one record, after
\* initialization and after every return of the navigation handler exactly
\* one panel is visible and exactly one entry is highlighted, both of the
\* record whose reference is lastActive.
C1_SingleSelection ==
    \A i \in Instances :
        (insts[i].exit = "done" /\ Len(insts[i].metadata) > 0)
            => (Known(insts[i], insts[i].lastActive)
                    /\ OneActive(insts[i], insts[i].lastActive))

\* C2: a navigation to a fragment that equals no record's reference ends in
\* the state showFile(records[0].reference) ends in, with lastActive the
\* first record's reference, its panel shown and its entry highlighted, and
\* raises no error.
C2_FallbackToFirst ==
    [][\A i \in listeners :
          (locationHash' # locationHash /\ ~Known(insts[i], locationHash'))
              => LET first == insts[i].metadata[1].hash
                 IN  /\ ~raised'
                     /\ insts'[i] = showFile(insts[i], first).self
                     /\ insts'[i].lastActive = first
                     /\ OneActive(insts'[i], first)]_vars

\* C3: from every reachable selection state and for every fragment, running
\* the navigation handler twice gives the state running it once gives, and
\* that state has exactly one active panel and entry.
C3_Idempotent ==
    \A i \in listeners : \A r \in Fragments :
        LET once == showFile(insts[i], r).self
            twice == showFile(once, r).self
        IN  /\ twice = once
            /\ OneActive(once, once.lastActive)

\* the value found by walking the segments of a path from a structure
RECURSIVE Lookup(_, _)
Lookup(o, parts) ==
    IF Len(parts) = 0 THEN o
    ELSE IF o.t = "object" THEN Lookup(Get(o, Head(parts)), Tail(parts))
    ELSE Undefined

RECURSIVE CountLeaves(_)
RECURSIVE CountLeavesIn(_)
CountLeavesIn(props) ==
    IF Len(props) = 0 THEN 0
    ELSE CountLeaves(Head(props).val) + CountLeavesIn(Tail(props))
CountLeaves(o) ==
    IF o.t = "number" THEN 1
    ELSE IF o.t = "object" THEN CountLeavesIn(o.props)
    ELSE 0

\* C4: for every non-empty list of pairwise distinct paths the structure
\* built from the stripped paths has exactly one leaf per path: the walk
\* along the segments of the i-th stripped path ends at the leaf i, and the
\* structure has as many leaves as there are paths.
C4_OneLeafPerPath ==
    \A i \in Instances :
        LET paths == insts[i].fileNames
            stripped == removePathPrefix(paths, getPrefixPath(paths))
            built == createFolderStructure(stripped, strict)
        IN  (Len(paths) > 0 /\ Distinct(paths))
                => /\ built.ok
                   /\ \A k \in 1..Len(paths) :
                          Lookup(built.val, Split(stripped[k], "/")) = Num(k - 1)
                   /\ CountLeaves(built.val) = Len(paths)

\* the kind the tags of an entry give when the last matching test decides
LastMatch(tags) ==
    IF "deleted-file" \in tags THEN DELETED
    ELSE IF "renamed-file" \in tags THEN RENAMED
    ELSE IF "add-file" \in tags THEN ADDED
    ELSE UPDATED

\* the kind when the first matching test decides
FirstMatch(tags) ==
    IF "add-file" \in tags THEN ADDED
    ELSE IF "renamed-file" \in tags THEN RENAMED
    ELSE IF "deleted-file" \in tags THEN DELETED
    ELSE UPDATED

\* C5 as stated: the kind of every record is the first match in the order
\* Added, Renamed, Deleted, and Updated when no tag is present.
C5_FirstMatchWins ==
    \A i \in Instances : \A k \in 1..Len(insts[i].metadata) :
        insts[i].metadata[k].type = FirstMatch(site[k].classList)

\* C5 as amended: the kind of every record is the last match in the order
\* Added, Renamed, Deleted (Deleted over Renamed over Added), and Updated
\* when no tag is present.
C5_LastMatchWins ==
    \A i \in Instances : \A k \in 1..Len(insts[i].metadata) :
        insts[i].metadata[k].type = LastMatch(site[k].classList)

C5_Witness ==
    \E i \in Instances : \E k \in 1..Len(insts[i].metadata) :
        /\ {"add-file", "deleted-file"} \subseteq site[k].classList
        /\ insts[i].metadata[k].type = DELETED

\* C6: a constructor that exits early for missing context leaves the page
\* as it was (no panel removed or hidden, no marker, nothing mounted, no
\* listener registered); every other constructor has completed the setup
\* (tree built, wrapper mounted, listener registered).
C6_AllOrNothing ==
    [][Len(insts') = Len(insts) + 1
          => LET id == Len(insts')
                 self == insts'[id]
             IN  IF self.exit \in Early
                 THEN /\ page' = page
                      /\ self.hidden = {}
                      /\ id \notin listeners'
                 ELSE /\ self.exit = "done"
                      /\ page'.wrapper = id
                      /\ id \in listeners']_vars

\* the leading directory segments shared by every path (a path's last
\* segment is its file name)
CommonDirs(paths) ==
    {q \in {SubSeq(Split(paths[1], "/"), 1, m) : m \in 0..(Len(Split(paths[1], "/")) - 1)} :
        \A k \in 1..Len(paths) :
            LET parts == Split(paths[k], "/")
            IN  Len(parts) > Len(q) /\ SubSeq(parts, 1, Len(q)) = q}

\* C7: the prefix of a non-empty path list is a directory common to all
\* paths: when it is non-empty every path starts with prefix + '/', no
\* stripped path is empty, and no longer sequence of leading directory
\* segments is shared by all paths.
C7_CommonDirectory ==
    \A i \in Instances :
        LET paths == insts[i].fileNames
            prefix == insts[i].pathPrefix
        IN  Len(paths) > 0
                => /\ Len(prefix) > 0
                          => \A k \in 1..Len(paths) : StartsWith(paths[k], prefix \o <<"/">>)
                   /\ \A k \in 1..Len(paths) : Len(insts[i].strippedFileNames[k]) > 0
                   /\ \A q \in CommonDirs(paths) : Len(Join(q, "/")) <= Len(prefix)

\* every entry of a structure: where it is, and which leaf or that it is a
\* directory
RECURSIVE EntrySet(_, _)
EntrySet(o, at) ==
    UNION {{[path |-> at \o <<o.props[k].key>>, t |-> o.props[k].val.t, n |-> o.props[k].val.n]}
               \cup EntrySet(o.props[k].val, at \o <<o.props[k].key>>) :
           k \in 1..Len(o.props)}

\* C8: folding a later path keeps every entry an earlier path created (a
\* leaf keeps its index, a leaf stays a leaf and a directory a directory)
\* and raises no error.
C8_FirstWriteWins ==
    \A i \in Instances : \A j \in 1..Len(insts[i].strippedFileNames) :
        LET before == FoldFiles(insts[i].strippedFileNames, j - 1, strict)
            after == FoldFiles(insts[i].strippedFileNames, j, strict)
        IN  before.ok
                => /\ after.ok
                   /\ EntrySet(before.val, <<>>) \subseteq EntrySet(after.val, <<>>)

\* the names directly below the directory at, in the order of their first
\* appearance in the path list
RECURSIVE FirstSeen(_, _)
FirstSeen(paths, at) ==
    IF Len(paths) = 0 THEN <<>>
    ELSE LET earlier == FirstSeen(SubSeq(paths, 1, Len(paths) - 1), at)
             parts == Split(paths[Len(paths)], "/")
         IN  IF /\ Len(parts) > Len(at)
                /\ SubSeq(parts, 1, Len(at)) = at
                /\ parts[Len(at) + 1] \notin Range(earlier)
             THEN Append(earlier, parts[Len(at) + 1])
             ELSE earlier

RECURSIVE RenderOrder(_, _, _)
RenderOrder(dom, paths, at) ==
    LET kids == dom.children
        folders == SelectSeq(kids, LAMBDA e : e.tag = "div")
        files == SelectSeq(kids, LAMBDA e : e.tag = "a")
        seen == FirstSeen(paths, at)
        names(q) == [k \in 1..Len(q) |-> q[k].text]
    IN  /\ kids = folders \o files
        /\ names(folders) = SelectSeq(seen, LAMBDA x : x \in Range(names(folders)))
        /\ names(files) = SelectSeq(seen, LAMBDA x : x \in Range(names(files)))
        /\ \A k \in 1..Len(folders) :
               RenderOrder(folders[k], paths, at \o <<folders[k].text>>)

\* C9: in every rendered directory the directories come before the files,
\* and each of the two groups is in the order in which its names were first
\* seen while folding the path list.
C9_RenderOrder ==
    \A i \in Instances :
        insts[i].leftElement # EmptyDOM
            => RenderOrder(insts[i].leftElement, insts[i].strippedFileNames, <<>>)

\* C10: a navigation event never changes an instance that was torn down,
\* and at most one instance has a registered navigation listener.
C10_Teardown ==
    /\ [](Cardinality(listeners) <= 1)
    /\ [][\A i \in Instances : insts[i].tornDown => insts'[i] = insts[i]]_vars

C10_Witness ==
    \E e, i, j \in Instances :
        /\ insts[e].tornDown /\ insts[e].exit \in Early
        /\ insts[i].tornDown /\ insts[i].exit = "done"
        /\ j \in listeners /\ j # i
        /\ Len(insts[i].lastActive) > 0
        /\ insts[j].lastActive # insts[i].lastActive
        /\ locationHash = insts[j].lastActive

====
